---- MODULE Spec2Model ----
(***************************************************************************)
(* A model of the voice assistant of anamite/project_mlo_two:              *)
(*   - the tool resolver        (src/command_processor.py)                 *)
(*   - the command executor     (src/command_executor.py)                  *)
(*   - the language-model client (src/api_client.py)                       *)
(*   - the message log          (src/message_manager.py)                   *)
(*   - the conversation orchestrator (src/voice_assistant.py)              *)
(*   - the wake detector        (src/wake_word_detector.py)                *)
(*                                                                         *)
(* Embeddings are integer vectors of the plane whose norms are integers,   *)
(* so that 100 x cosine similarity is an integer and is computed exactly.  *)
(* Sampling temperatures are in tenths (1 is 10, 0.3 is 3).                *)
(***************************************************************************)
EXTENDS Integers, Sequences, FiniteSets, TLC

(***************************************************************************)
(* Bounds of the model.                                                    *)
(***************************************************************************)
\* rows of the simple_tools and intelligent_tools tables together
MaxRows == 3
\* capture windows of a run
MaxTurns == 3
\* the frames the wake queue holds at most
MaxWakeFrames == 2
\* the frame periods a capture window is followed for
MaxTime == 10

(***************************************************************************)
(* Embeddings and cosine similarity.                                       *)
(***************************************************************************)
\* a row whose embedding column is NULL (or empty bytes): falsy in Python
NoEmbedding == <<>>

\* the vectors stored in the registry rows
Embeddings == { <<5, 0>>, <<3, 4>>, <<0, 5>>, <<6, 8>> }

Dot(u, v) == u[1] * v[1] + u[2] * v[2]

\* the Euclidean norm; the vectors in use have integer norms
Norm(v) == CHOOSE n \in 0..(Dot(v, v)) : n * n = Dot(v, v)

\* sklearn's cosine_similarity, times 100 (command_processor.py:68)
Confidence(u, v) == (100 * Dot(u, v)) \div (Norm(u) * Norm(v))

\* the transcripts of the model; the blank ones are falsy after strip()
Texts == { "", " ", "what time is it", "set a timer", "tell me a joke" }

\* a variant that strips nothing
StripNothing(text) == text

Strip(text) == IF text = " " THEN "" ELSE text

\* sentence_model.encode: a fixed vector for each text
Encode(text) ==
    CASE text = "what time is it" -> <<3, 4>>
      [] text = "set a timer"     -> <<0, 5>>
      [] text = "tell me a joke"  -> <<-3, 4>>
      [] OTHER                    -> <<5, 0>>

(***************************************************************************)
(* The tool resolver: CommandProcessor.process_command.                    *)
(***************************************************************************)
simple_threshold == 50
intelligent_tool_threshold == 30

\* tool_id of a result that names no tool (Python's None)
NoneId == 0

\* the rows of a registry table that hold an embedding, in row order
WithEmbedding(rows) == SelectSeq(rows, LAMBDA r : r.tool_embedding # NoEmbedding)

\* the similarities of the user embedding with each row, times 100
Similarities(user_embedding, rows) ==
    [i \in 1..Len(rows) |-> Confidence(user_embedding, rows[i].tool_embedding)]

\* numpy's argmax: the first index that holds the maximum
ArgMax(sims) ==
    CHOOSE i \in 1..Len(sims) :
        /\ \A j \in 1..Len(sims) : sims[j] <= sims[i]
        /\ \A j \in 1..(i - 1) : sims[j] < sims[i]

\* the best row of a registry: <<tool_id, confidence>>; rows is not empty
Best(user_embedding, rows) ==
    LET sims == Similarities(user_embedding, rows)
        best == ArgMax(sims)
    IN  <<rows[best].tool_id, sims[best]>>

Result(tool_type, tool_id, confidence) ==
    [tool_type |-> tool_type, tool_id |-> tool_id, confidence |-> confidence]

\* a variant that ranks the two registries together and returns the higher
ProcessCommandByScore(text, simple_rows, intelligent_rows) ==
    LET user_embedding == Encode(text)
        simple == WithEmbedding(simple_rows)
        intelligent == WithEmbedding(intelligent_rows)
        s == IF simple # <<>> THEN Best(user_embedding, simple) ELSE <<NoneId, -101>>
        t == IF intelligent # <<>> THEN Best(user_embedding, intelligent)
                                   ELSE <<NoneId, -101>>
    IN  IF Strip(text) = "" THEN Result("None", NoneId, 0)
        ELSE IF t[2] >= intelligent_tool_threshold /\ t[2] > s[2]
             THEN Result("intelligent", t[1], t[2])
        ELSE IF s[2] >= simple_threshold THEN Result("simple", s[1], s[2])
        ELSE Result("None", NoneId, 0)

\* a variant that never looks at the intelligent tools
ProcessCommandSimpleOnly(text, simple_rows, intelligent_rows) ==
    LET user_embedding == Encode(text)
        simple == WithEmbedding(simple_rows)
    IN  IF Strip(text) = "" THEN Result("None", NoneId, 0)
        ELSE IF simple # <<>> /\ Best(user_embedding, simple)[2] >= simple_threshold
             THEN Result("simple", Best(user_embedding, simple)[1],
                         Best(user_embedding, simple)[2])
        ELSE Result("None", NoneId, 0)

\* a variant without the guards of lines 52, 64, 79 and 91: the similarity
\* of an empty list of embeddings raises
ProcessCommandUnguarded(text, simple_rows, intelligent_rows) ==
    LET user_embedding == Encode(text)
        simple == WithEmbedding(simple_rows)
        intelligent == WithEmbedding(intelligent_rows)
    IN  IF Strip(text) = "" THEN Result("None", NoneId, 0)
        ELSE IF simple = <<>> THEN Result("raise", NoneId, 0)
        ELSE IF Best(user_embedding, simple)[2] >= simple_threshold
             THEN Result("simple", Best(user_embedding, simple)[1],
                         Best(user_embedding, simple)[2])
        ELSE IF intelligent = <<>> THEN Result("raise", NoneId, 0)
        ELSE IF Best(user_embedding, intelligent)[2] >= intelligent_tool_threshold
             THEN Result("intelligent", Best(user_embedding, intelligent)[1],
                         Best(user_embedding, intelligent)[2])
        ELSE Result("None", NoneId, 0)

\* a variant that falls back to the best intelligent tool whatever it scores
ProcessCommandNoFloor(text, simple_rows, intelligent_rows) ==
    LET user_embedding == Encode(text)
        simple == WithEmbedding(simple_rows)
        intelligent == WithEmbedding(intelligent_rows)
    IN  IF Strip(text) = "" THEN Result("None", NoneId, 0)
        ELSE IF simple # <<>> /\ Best(user_embedding, simple)[2] >= simple_threshold
             THEN Result("simple", Best(user_embedding, simple)[1],
                         Best(user_embedding, simple)[2])
        ELSE IF intelligent # <<>>
             THEN Result("intelligent", Best(user_embedding, intelligent)[1],
                         Best(user_embedding, intelligent)[2])
        ELSE Result("None", NoneId, 0)

ProcessCommand(text, simple_rows, intelligent_rows) ==
    LET user_embedding == Encode(text)
        simple == WithEmbedding(simple_rows)
        intelligent == WithEmbedding(intelligent_rows)
    IN  IF Strip(text) = "" THEN Result("None", NoneId, 0)
        ELSE IF simple # <<>> /\ Best(user_embedding, simple)[2] >= simple_threshold
             THEN Result("simple", Best(user_embedding, simple)[1],
                         Best(user_embedding, simple)[2])
        ELSE IF intelligent # <<>>
                /\ Best(user_embedding, intelligent)[2] >= intelligent_tool_threshold
             THEN Result("intelligent", Best(user_embedding, intelligent)[1],
                         Best(user_embedding, intelligent)[2])
        ELSE Result("None", NoneId, 0)

\* lines 44-76: what process_command calls: nothing for a blank text;
\* else the embedding model and the simple table, and the intelligent table
\* unless a simple tool was returned
Collaborators(text, simple_rows, intelligent_rows) ==
    IF Strip(text) = "" THEN <<>>
    ELSE <<"sentence_model.encode", "get_simple_tool_embeddings">> \o
         IF ProcessCommand(text, simple_rows, intelligent_rows).tool_type = "simple"
         THEN <<>>
         ELSE <<"get_intelligent_tool_embeddings">>

(***************************************************************************)
(* The registries: the rows of a table in the order the store returns      *)
(* them.  A table of n rows holds the tool ids 1..n, each once, in any     *)
(* order; a row holds an embedding or none.                                *)
(***************************************************************************)
Rows(n) == [tool_id : 1..n, tool_embedding : Embeddings \cup {NoEmbedding}]

DistinctIds(t) == \A i, j \in 1..Len(t) : i # j => t[i].tool_id # t[j].tool_id

Registries(n) == { t \in [1..n -> Rows(n)] : DistinctIds(t) }

(***************************************************************************)
(* The tool store the assistant runs against (tools_database.db): the      *)
(* rows of the two tables.                                                 *)
(***************************************************************************)
simple_tools ==
    << [id |-> 1, tool_name |-> "get_weather",
        description |-> "get the weather, how is the weather?",
        embedding_vector |-> <<5, 0>>] >>

intelligent_tools ==
    << [id |-> 1, tool_name |-> "set_timer",
        tool_description |-> "set a timer for a duration",
        tool_variables |-> <<"duration">>,
        tool_embedding_vector |-> <<3, 4>>] >>

\* Python's None; like None it is falsy (it equals the empty sequence)
None == <<>>

\* DatabaseManager.get_simple_tool_embeddings: the rows, or [] when the
\* store cannot be read
GetSimpleToolEmbeddings(db_ok) ==
    IF db_ok
    THEN [i \in 1..Len(simple_tools) |->
            [tool_id |-> simple_tools[i].id,
             tool_embedding |-> simple_tools[i].embedding_vector]]
    ELSE <<>>

\* DatabaseManager.get_intelligent_tool_embeddings
GetIntelligentToolEmbeddings(db_ok) ==
    IF db_ok
    THEN [i \in 1..Len(intelligent_tools) |->
            [tool_id |-> intelligent_tools[i].id,
             tool_embedding |-> intelligent_tools[i].tool_embedding_vector]]
    ELSE <<>>

\* DatabaseManager.get_simple_tool: the row's name and description, or None
GetSimpleTool(tool_id, db_ok) ==
    IF db_ok /\ \E i \in 1..Len(simple_tools) : simple_tools[i].id = tool_id
    THEN LET i == CHOOSE k \in 1..Len(simple_tools) : simple_tools[k].id = tool_id
         IN  [tool_name |-> simple_tools[i].tool_name,
              description |-> simple_tools[i].description]
    ELSE None

(***************************************************************************)
(* The message log: MessageManager (messages.db).                          *)
(***************************************************************************)
Message(role, message) == [role |-> role, message |-> message]

\* a variant that loses the message
AddMessageNowhere(log, role, message) == log

\* MessageManager.add_message
AddMessage(log, role, message) == Append(log, Message(role, message))

Reverse(seq) == [i \in 1..Len(seq) |-> seq[Len(seq) + 1 - i]]

\* MessageManager.get_last_messages: newest first, cut to limit, reversed
GetLastMessages(log, limit) ==
    LET newest_first == Reverse(log)
        n == IF Len(log) < limit THEN Len(log) ELSE limit
    IN  Reverse(SubSeq(newest_first, 1, n))

(***************************************************************************)
(* The language-model client: APIClient.get_ai_response.                   *)
(***************************************************************************)
\* get_last_messages(10)
past_messages_limit == 10
\* temperature=1, in tenths
default_temperature == 10
\* temperature=0.3 of the retry, in tenths
retry_temperature == 3

Envelope(message, continue_conversation) ==
    [message |-> message, continue_conversation |-> continue_conversation]

\* what completion.choices[0].message.content may hold
Contents ==
    { "{\"message\": \"Sure, what else?\", \"continue_conversation\": true}",
      "{\"message\": \"Done.\", \"continue_conversation\": false}",
      "{\"message\": \"Done.\"}",
      "{\"continue_conversation\": false}",
      "Done." }

\* json.loads: the parsed object, or a JSONDecodeError
JsonLoads(content) ==
    CASE content = "{\"message\": \"Sure, what else?\", \"continue_conversation\": true}"
            -> [ok |-> TRUE, value |-> Envelope("Sure, what else?", TRUE)]
      [] content = "{\"message\": \"Done.\", \"continue_conversation\": false}"
            -> [ok |-> TRUE, value |-> Envelope("Done.", FALSE)]
      [] content = "{\"message\": \"Done.\"}"
            -> [ok |-> TRUE, value |-> [message |-> "Done."]]
      [] content = "{\"continue_conversation\": false}"
            -> [ok |-> TRUE, value |-> [continue_conversation |-> FALSE]]
      [] OTHER
            -> [ok |-> FALSE]

\* the errors client.chat.completions.create may raise, as str(e)
JsonErrors == { "Error code: 400 - json_validate_failed" }
OtherErrors == { "Connection error." }

\* one call of the backend: it replies with a content or raises
BackendOutcomes ==
    [kind : {"reply"}, content : Contents]
        \cup [kind : {"raise"}, error : JsonErrors \cup OtherErrors]

SystemPrompt == [role |-> "system", content |-> "You are a helpful assistant."]

\* the messages array: the system prompt, then the past messages
BuildMessages(past_messages) ==
    <<SystemPrompt>> \o
    [i \in 1..Len(past_messages) |->
        [role |-> past_messages[i].role, content |-> past_messages[i].message]]

\* the arguments of client.chat.completions.create; tool_id is not among them
Request(user_message, tool_id, temperature, log) ==
    [model |-> "openai/gpt-oss-120b",
     messages |-> BuildMessages(GetLastMessages(log, past_messages_limit)),
     temperature |-> temperature]

\* a variant that retries a JSON validation error on every attempt
ShouldRetryAlways(error_str, retry_count) == error_str \in JsonErrors

\* line 161: a JSON validation error that has not been retried yet
ShouldRetry(error_str, retry_count) == error_str \in JsonErrors /\ retry_count = 0

NoAccessEnvelope ==
    Envelope("Sorry, I don't have access to AI assistance right now.", FALSE)
FallbackEnvelope == Envelope("Sorry, I had trouble understanding that.", FALSE)

\* a variant of the apology that keeps the conversation open
ErrorEnvelopeContinuing ==
    Envelope("Sorry, I couldn't process your request right now.", TRUE)

ErrorEnvelope == Envelope("Sorry, I couldn't process your request right now.", FALSE)

\* a variant that answers a reply it cannot use with the apology of a failed call
HandleReplyAsError(content) ==
    LET parsed == JsonLoads(content)
    IN  IF parsed.ok /\ "message" \in DOMAIN parsed.value
        THEN parsed.value
        ELSE ErrorEnvelope

\* lines 140-154: the reply is parsed; a reply that is not JSON or has no
\* message is replaced by the fallback
HandleReply(content) ==
    LET parsed == JsonLoads(content)
    IN  IF parsed.ok /\ "message" \in DOMAIN parsed.value
        THEN parsed.value
        ELSE FallbackEnvelope

(***************************************************************************)
(* The command executor: CommandExecutor.execute_initial_command.          *)
(***************************************************************************)
\* a variant whose acknowledgement keeps the conversation open
SimpleResponseAsking(tool_name) == Envelope("Executing " \o tool_name, TRUE)

\* lines 44-88: the fixed reply of a simple tool, by its name
SimpleResponse(tool_name) ==
    CASE tool_name = "turn_on_bedroom_lamp" -> Envelope("Bedroom lamp is now on", FALSE)
      [] tool_name = "turn_off_bedroom_lamp" -> Envelope("Bedroom lamp is now off", FALSE)
      [] tool_name = "turn_on_living_room_lamp" -> Envelope("Living room lamp is now on", FALSE)
      [] tool_name = "turn_off_living_room_lamp" -> Envelope("Living room lamp is now off", FALSE)
      [] tool_name = "turn_on_all_lights" -> Envelope("All lights are now on", FALSE)
      [] tool_name = "turn_off_all_lights" -> Envelope("All lights are now off", FALSE)
      [] tool_name = "get_time" -> Envelope("The current time is 09:41 AM", FALSE)
      [] tool_name = "get_weather" -> Envelope("The current weather is sunny", FALSE)
      [] tool_name = "volume_up" -> Envelope("Volume is now up", FALSE)
      [] tool_name = "volume_down" -> Envelope("Volume is now down", FALSE)
      [] tool_name = "mute" -> Envelope("Volume is now muted", FALSE)
      [] tool_name = "unmute" -> Envelope("Volume is now unmuted", FALSE)
      [] tool_name = "private_mode_on" -> Envelope("Private mode is now enabled", FALSE)
      [] tool_name = "private_mode_off" -> Envelope("Private mode is now disabled", FALSE)
      [] tool_name = "switch_voice" -> Envelope("Voice has been switched", FALSE)
      [] OTHER -> Envelope("Executing " \o tool_name, FALSE)

(***************************************************************************)
(* State.                                                                  *)
(***************************************************************************)
VARIABLES
    r_text,          \* the transcript given to process_command
    r_simple,        \* the rows of simple_tools
    r_intelligent,   \* the rows of intelligent_tools
    r_result,        \* what process_command returned
    r_pc,            \* "call" before the call, "done" after it, "twice" after a second
    r_again,         \* what the second call of process_command returned
    r_calls          \* history: what the first call called, in order

rvars == <<r_text, r_simple, r_intelligent, r_result, r_pc, r_again, r_calls>>

VARIABLES
    pc,                     \* where VoiceAssistant.run is
    running,                \* VoiceAssistant.running
    continue_conversation,  \* VoiceAssistant.continue_conversation
    listening_for_command,  \* the Event given to recognize_command
    wake_detected,          \* WakeWordDetector.wake_detected
    detector_running,       \* WakeWordDetector.running
    wake_stream,            \* the RawInputStream of line 90 is open
    command_stream,         \* the RawInputStream of line 112 is open
    messages,               \* the rows of messages.db, oldest first
    api_key,                \* APIClient.api_key
    command_text,           \* the transcript of the turn
    resolution,             \* what process_command returned
    response,               \* what process_command_async returned
    temperature,            \* get_ai_response: the sampling temperature, in tenths
    retry_count,            \* get_ai_response: the retries made
    calls,                  \* history: the backend calls of the turn, until it is spoken
    sounds,                 \* history: what was played since the loop head
    trigger,                \* history: what opened the capture window
    waited,                 \* history: a poll found nothing since the last turn
    log_mark,               \* history: Len(messages) when the window opened
    fault,                  \* history: the exception that ended the loop
    turns,                  \* history: capture windows opened so far
    in_flight,              \* history: calls of recognize_command not yet returned
    dropped                 \* history: the turn's end cleared a raised wake signal

ovars == <<pc, running, continue_conversation, listening_for_command, wake_detected,
           detector_running, wake_stream, command_stream, messages, api_key,
           command_text, resolution, response, temperature, retry_count, calls,
           sounds, trigger, waited, log_mark, fault, turns, in_flight, dropped>>

VARIABLES
    wake_queue,      \* AudioManager.wake_queue, oldest frame first
    audio_queue,     \* AudioManager.audio_queue, oldest frame first
    now,             \* time.time(), in frame periods of the command stream
    rec_pc,          \* where the call of recognize_command is
    rec_text,        \* recognize_command: command_text
    silence_start,   \* recognize_command: silence_start
    fed,             \* history: frames given to the speech engine in this call
    heard,           \* history: what the engine has reported in this call
    final_at,        \* history: the value of fed when a final transcript came
    resubmitted,     \* history: a frame went to the wake model while the signal was set
    d_pc,            \* where _detection_loop is: "check", "round" or "exited"
    stopped_calls,   \* history: the calls of the wake model begun after stop()
    last_predict,    \* history: how the last call of the wake model ended
    timer_reset,     \* history: a partial result with words came while the silence
                     \* timer was running
    pushed_turn,     \* history: the turn in which the last frame was queued
    fed_stale        \* history: the recognizer took a frame queued in an earlier turn

svars == <<pushed_turn, fed_stale>>

dvars == <<d_pc, stopped_calls, last_predict>>

avars == <<wake_queue, audio_queue, now, rec_pc, rec_text, silence_start, fed,
           heard, final_at, resubmitted, dvars, timer_reset, svars>>

VARIABLES
    l_rows,          \* the rows of the table messages, in the order of their ids
    l_added,         \* what the last add_message returned
    l_limit,         \* the limit of the last get_last_messages
    l_result,        \* what the last get_last_messages returned
    l_pc             \* "idle", "added" after add_message, "read" after get_last_messages

lvars == <<l_rows, l_added, l_limit, l_result, l_pc>>

VARIABLES
    w_signal,        \* WakeWordDetector.wake_detected
    w_pc,            \* the loop of run: "poll", "clear" inside is_wake_detected, "turn"
    w_continue,      \* VoiceAssistant.continue_conversation
    w_raises,        \* history: the times the detector set a signal that was clear
    w_turns,         \* history: the times is_wake_detected returned True
    w_raced          \* history: the detector set the signal between the test and
                     \* the clear of is_wake_detected

wvars == <<w_signal, w_pc, w_continue, w_raises, w_turns, w_raced>>

VARIABLES
    k_timers,        \* timers of clock_app, by order of creation: "running" while the
                     \* entry is in the registry, "cancelling" once its task has been
                     \* cancelled and has not yet run, "gone" once it is removed
    k_alarms,        \* alarms of clock_app, by order of creation: the target time, the
                     \* clock at the request, the position of the worker, whether the
                     \* entry is in the registry, its status, the HTTP status its
                     \* creation was answered with and the one raised in its task
    k_now,           \* the clock of the timers and alarms service
    k_reply,         \* the HTTP status of the last request, 0 before any
    k_info           \* the status field of the entry the last request returned

kvars == <<k_timers, k_alarms, k_now, k_reply, k_info>>

xvars == <<lvars, wvars, kvars>>

vars == <<rvars, ovars, avars, xvars>>

\* MessageManager.__init__ on a new messages.db: the table is empty
LogIdle ==
    /\ l_rows = <<>>
    /\ l_added = FALSE
    /\ l_limit = 0
    /\ l_result = <<>>
    /\ l_pc = "idle"

\* WakeWordDetector.__init__, lines 25-26, and VoiceAssistant.__init__
WakeIdle ==
    /\ w_signal = FALSE
    /\ w_pc = "poll"
    /\ w_continue = FALSE
    /\ w_raises = 0
    /\ w_turns = 0
    /\ w_raced = FALSE

\* clock_app, lines 147-148: both registries are empty
ClockIdle ==
    /\ k_timers = <<>>
    /\ k_alarms = <<>>
    /\ k_now = 0
    /\ k_reply = 0
    /\ k_info = "none"

ExtrasIdle == LogIdle /\ WakeIdle /\ ClockIdle

(***************************************************************************)
(* The resolver alone, on every registry within the bound.                 *)
(***************************************************************************)
ResolveInit ==
    /\ r_text \in Texts
    /\ \E n \in 0..MaxRows, m \in 0..MaxRows :
          /\ n + m <= MaxRows
          /\ r_simple \in Registries(n)
          /\ r_intelligent \in Registries(m)
    /\ r_result = Result("None", NoneId, 0)
    /\ r_pc = "call"
    /\ r_again = Result("None", NoneId, 0)
    /\ r_calls = <<>>

ResolveIdle ==
    /\ r_text = ""
    /\ r_simple = <<>>
    /\ r_intelligent = <<>>
    /\ r_result = Result("None", NoneId, 0)
    /\ r_pc = "done"
    /\ r_again = Result("None", NoneId, 0)
    /\ r_calls = <<>>

Resolve ==
    /\ r_pc = "call"
    /\ r_result' = ProcessCommand(r_text, r_simple, r_intelligent)
    /\ r_calls' = Collaborators(r_text, r_simple, r_intelligent)
    /\ r_pc' = "done"
    /\ UNCHANGED <<r_text, r_simple, r_intelligent, r_again>>
    /\ UNCHANGED ovars
    /\ UNCHANGED avars
    /\ UNCHANGED xvars

\* a variant whose second call takes the last of the rows that tie
ResolveAgainFromTheEnd ==
    /\ r_pc = "done"
    /\ r_again' = ProcessCommand(r_text, Reverse(r_simple), Reverse(r_intelligent))
    /\ r_pc' = "twice"
    /\ UNCHANGED <<r_text, r_simple, r_intelligent, r_result, r_calls>>
    /\ UNCHANGED ovars
    /\ UNCHANGED avars
    /\ UNCHANGED xvars

\* a second call of process_command with the same text; the tables have
\* not changed and the store returns their rows as before
ResolveAgain ==
    /\ r_pc = "done"
    /\ r_again' = ProcessCommand(r_text, r_simple, r_intelligent)
    /\ r_pc' = "twice"
    /\ UNCHANGED <<r_text, r_simple, r_intelligent, r_result, r_calls>>
    /\ UNCHANGED ovars
    /\ UNCHANGED avars
    /\ UNCHANGED xvars

(***************************************************************************)
(* The wake detector thread: one round of WakeWordDetector._detection_loop *)
(* with a frame in hand.                                                   *)
(***************************************************************************)
\* confidence_threshold=0.5, in hundredths
confidence_threshold == 50

DetectionLoop ==
    /\ detector_running
    /\ \E model_ok \in BOOLEAN, confidence \in {20, 90} :
          wake_detected' = IF model_ok /\ confidence > confidence_threshold
                           THEN TRUE
                           ELSE wake_detected
    /\ UNCHANGED <<pc, running, continue_conversation, listening_for_command,
                   detector_running, wake_stream, command_stream, messages, api_key,
                   command_text, resolution, response, temperature, retry_count,
                   calls, sounds, trigger, waited, log_mark, fault, turns,
                   in_flight, dropped>>
    /\ UNCHANGED rvars
    /\ UNCHANGED xvars
    /\ UNCHANGED avars

(***************************************************************************)
(* The orchestrator: VoiceAssistant.run and process_command_async.         *)
(***************************************************************************)
\* a variant that opens a capture window on a wake signal only
ShouldCaptureOnWake(woke, continuing) == woke

\* a variant that opens a capture window at every poll
ShouldCaptureAlways(woke, continuing) == TRUE

\* line 103: is_wake_detected() or self.continue_conversation
ShouldCapture(woke, continuing) == woke \/ continuing

\* a variant that plays the ready tone for a wake signal only
ReadyToneOnWake(woke, continuing) ==
    IF woke THEN <<"sources/ready.mp3">> ELSE <<>>

\* line 106: the ready tone, played on every entry into the capture branch
\* (the condition that follows it in the source is commented out)
ReadyTone(woke, continuing) == <<"sources/ready.mp3">>

\* the log a run may start with: messages.db outlives the process
PriorLogs ==
    { <<>>,
      [i \in 1..9 |-> Message(IF i % 2 = 1 THEN "user" ELSE "assistant", "earlier")] }

OrchestratorInit ==
    /\ pc = "WaitingForWake"
    /\ running = TRUE
    /\ continue_conversation = FALSE
    /\ listening_for_command = FALSE
    /\ wake_detected = FALSE
    /\ detector_running = TRUE
    /\ wake_stream = TRUE
    /\ command_stream = FALSE
    /\ messages \in PriorLogs
    /\ api_key \in {"gsk_key", ""}
    /\ command_text = ""
    /\ resolution = Result("None", NoneId, 0)
    /\ response = None
    /\ temperature = default_temperature
    /\ retry_count = 0
    /\ calls = <<>>
    /\ sounds = <<>>
    /\ trigger = "none"
    /\ waited = FALSE
    /\ log_mark = Len(messages)
    /\ fault = "none"
    /\ turns = 0
    /\ in_flight = 0
    /\ dropped = FALSE

\* lines 154-157 and cleanup: an exception leaves the loop and stops the detector
Crash(what) ==
    /\ pc' = "Stopped"
    /\ running' = FALSE
    /\ detector_running' = FALSE
    /\ wake_stream' = FALSE
    /\ fault' = what

\* a variant that starts recognize_command and goes back to the poll
NotAwaited == "WaitingForWake"

\* line 121: the loop awaits recognize_command, so it stays at the capture
\* until the call returns
Awaited == "Capturing"

\* lines 101-121: the poll; a capture window opens on a wake signal or a
\* continuing conversation, after the ready tone, and recognize_command is
\* called
Poll ==
    /\ pc = "WaitingForWake"
    /\ running
    /\ turns < MaxTurns
    /\ LET woke == wake_detected
       IN  IF ShouldCapture(woke, continue_conversation)
           THEN /\ wake_detected' = FALSE
                /\ sounds' = ReadyTone(woke, continue_conversation)
                /\ listening_for_command' = TRUE
                /\ command_stream' = TRUE
                /\ pc' = Awaited
                /\ trigger' = IF woke THEN "wake" ELSE "continue"
                /\ waited' = FALSE
                /\ calls' = <<>>
                /\ log_mark' = Len(messages)
                /\ turns' = turns + 1
                /\ in_flight' = in_flight + 1
           ELSE /\ waited' = TRUE
                /\ UNCHANGED <<wake_detected, sounds, listening_for_command,
                               command_stream, pc, trigger, calls, log_mark,
                               turns, in_flight>>
    /\ dropped' = FALSE
    /\ UNCHANGED <<running, continue_conversation, detector_running, wake_stream,
                   messages, api_key, command_text, resolution, response,
                   temperature, retry_count, fault>>
    /\ UNCHANGED rvars
    /\ UNCHANGED xvars
    /\ UNCHANGED avars

\* lines 119-128: recognize_command returns a transcript, the command
\* stream closes and the listening event is cleared
Capture ==
    /\ pc = "Capturing"
    /\ \E text \in Texts : command_text' = text
    /\ in_flight' = in_flight - 1
    /\ command_stream' = FALSE
    /\ listening_for_command' = FALSE
    /\ pc' = "Processing"
    /\ UNCHANGED <<running, continue_conversation, wake_detected, detector_running,
                   wake_stream, messages, api_key, resolution, response, temperature,
                   retry_count, calls, sounds, trigger, waited, log_mark, fault,
                   turns, dropped>>
    /\ UNCHANGED rvars
    /\ UNCHANGED xvars
    /\ UNCHANGED avars

\* process_command_async, lines 46-49 and 59-64
Process ==
    /\ pc = "Processing"
    /\ IF Strip(command_text) # ""
       THEN /\ messages' = AddMessage(messages, "user", command_text)
            /\ pc' = "Resolving"
            /\ UNCHANGED <<continue_conversation, sounds, response>>
       ELSE /\ continue_conversation' = FALSE
            /\ sounds' = sounds \o <<"low_beep", "low_beep">>
            /\ response' = None
            /\ pc' = "Speaking"
            /\ UNCHANGED messages
    /\ UNCHANGED <<running, listening_for_command, wake_detected, detector_running,
                   wake_stream, command_stream, api_key, command_text, resolution,
                   temperature, retry_count, calls, trigger, waited, log_mark,
                   fault, turns, in_flight, dropped>>
    /\ UNCHANGED rvars
    /\ UNCHANGED xvars
    /\ UNCHANGED avars

\* process_command_async, line 52: the resolver; an error of the embedding
\* model is caught nowhere but at line 154
ResolveTurn ==
    /\ pc = "Resolving"
    /\ \E embed_ok \in BOOLEAN, simple_ok \in BOOLEAN, intelligent_ok \in BOOLEAN :
          IF embed_ok
          THEN /\ resolution' = ProcessCommand(command_text,
                                               GetSimpleToolEmbeddings(simple_ok),
                                               GetIntelligentToolEmbeddings(intelligent_ok))
               /\ pc' = "Executing"
               /\ UNCHANGED <<running, detector_running, wake_stream, fault>>
          ELSE /\ Crash("embedding")
               /\ UNCHANGED resolution
    /\ UNCHANGED <<continue_conversation, listening_for_command, wake_detected,
                   command_stream, messages, api_key, command_text, response,
                   temperature, retry_count, calls, sounds, trigger, waited,
                   log_mark, turns, in_flight, dropped>>
    /\ UNCHANGED rvars
    /\ UNCHANGED xvars
    /\ UNCHANGED avars

\* process_command_async, line 57: execute_initial_command up to its
\* return or to the call of get_ai_response (temperature=1, retry_count=0),
\* which returns at once without credentials
Execute ==
    /\ pc = "Executing"
    /\ \E db_ok \in BOOLEAN :
          IF resolution.tool_type = "simple"
          THEN /\ response' =
                    LET tool_details == GetSimpleTool(resolution.tool_id, db_ok)
                    IN  IF tool_details # None
                        THEN SimpleResponse(tool_details.tool_name)
                        ELSE Envelope("Sorry, I couldn't find that tool", FALSE)
               /\ pc' = "Speaking"
          ELSE /\ IF api_key = ""
                  THEN /\ response' = NoAccessEnvelope
                       /\ pc' = "Speaking"
                  ELSE /\ pc' = "Calling"
                       /\ UNCHANGED response
    /\ temperature' = default_temperature
    /\ retry_count' = 0
    /\ UNCHANGED <<running, continue_conversation, listening_for_command,
                   wake_detected, detector_running, wake_stream, command_stream,
                   messages, api_key, command_text, resolution, calls, sounds,
                   trigger, waited, log_mark, fault, turns, in_flight, dropped>>
    /\ UNCHANGED rvars
    /\ UNCHANGED xvars
    /\ UNCHANGED avars

\* get_ai_response, lines 98-172: one call of the backend and what follows
\* it: the reply (or the fallback) is logged and returned, a JSON validation
\* error is retried once at temperature 0.3, any other error is answered by
\* the logged apology; the arguments of the call are gone when it returns
BackendCall ==
    /\ pc = "Calling"
    /\ \E outcome \in BackendOutcomes :
          /\ calls' = Append(calls,
                [request |-> Request(command_text, resolution.tool_id, temperature,
                                     messages),
                 outcome |-> outcome])
          /\ IF outcome.kind = "reply"
             THEN /\ response' = HandleReply(outcome.content)
                  /\ messages' = AddMessage(messages, "assistant", response'.message)
                  /\ pc' = "Speaking"
                  /\ temperature' = default_temperature
                  /\ retry_count' = 0
             ELSE /\ IF ShouldRetry(outcome.error, retry_count)
                     THEN /\ temperature' = retry_temperature
                          /\ retry_count' = retry_count + 1
                          /\ pc' = "Calling"
                          /\ UNCHANGED <<response, messages>>
                     ELSE /\ response' = ErrorEnvelope
                          /\ messages' = AddMessage(messages, "assistant",
                                                    ErrorEnvelope.message)
                          /\ pc' = "Speaking"
                          /\ temperature' = default_temperature
                          /\ retry_count' = 0
    /\ UNCHANGED <<running, continue_conversation, listening_for_command,
                   wake_detected, detector_running, wake_stream, command_stream,
                   api_key, command_text, resolution, sounds, trigger, waited,
                   log_mark, fault, turns, in_flight, dropped>>
    /\ UNCHANGED rvars
    /\ UNCHANGED xvars
    /\ UNCHANGED avars

\* a variant that leaves the wake signal as it is at the end of every turn
WakeKeptAfterTurn(wake, continuing) == wake

\* lines 138-146: a continuing turn goes back to the loop head at line 142;
\* any other turn clears the wake signal at line 146
WakeAfterTurn(wake, continuing) == IF continuing THEN wake ELSE FALSE

\* lines 134-149: the reply is spoken (text-to-speech errors are caught in
\* AudioManager), then the flag of the envelope decides the next round;
\* an envelope without the flag raises KeyError at line 138
Speak ==
    /\ pc = "Speaking"
    /\ \E tts_ok \in BOOLEAN :
          /\ sounds' = IF response # None /\ response.message # "" /\ tts_ok
                       THEN Append(sounds, response.message)
                       ELSE sounds
          /\ IF response # None /\ "continue_conversation" \notin DOMAIN response
             THEN /\ Crash("KeyError")
                  /\ UNCHANGED <<continue_conversation, wake_detected, dropped>>
             ELSE /\ LET continuing == response # None /\ response.continue_conversation
                     IN  /\ continue_conversation' = continuing
                         /\ wake_detected' = WakeAfterTurn(wake_detected, continuing)
                         /\ dropped' = (wake_detected /\ ~wake_detected')
                  /\ pc' = "WaitingForWake"
                  /\ UNCHANGED <<running, detector_running, wake_stream, fault>>
    /\ calls' = <<>>
    /\ UNCHANGED <<listening_for_command, command_stream, messages, api_key,
                   command_text, resolution, response, temperature, retry_count,
                   trigger, waited, log_mark, turns, in_flight>>
    /\ UNCHANGED rvars
    /\ UNCHANGED xvars
    /\ UNCHANGED avars

\* silence_start = None: the silence timer is not running
NoTime == -1

\* AudioManager.__init__ and before any call of recognize_command: the
\* queues are empty and no recognizer exists
AudioIdle ==
    /\ wake_queue = <<>>
    /\ audio_queue = <<>>
    /\ now = 0
    /\ rec_pc = "Idle"
    /\ rec_text = ""
    /\ silence_start = NoTime
    /\ fed = 0
    /\ heard = "nothing"
    /\ final_at = 0
    /\ resubmitted = FALSE
    /\ d_pc = "check"
    /\ stopped_calls = 0
    /\ last_predict = "none"
    /\ timer_reset = FALSE
    /\ pushed_turn = 0
    /\ fed_stale = FALSE

Init == ResolveIdle /\ OrchestratorInit /\ AudioIdle /\ ExtrasIdle

Next ==
    \/ DetectionLoop
    \/ Poll
    \/ Capture
    \/ Process
    \/ ResolveTurn
    \/ Execute
    \/ BackendCall
    \/ Speak

Spec == Init /\ [][Next]_vars

\* the resolver alone; the orchestrator does not run
OrchestratorIdle ==
    /\ OrchestratorInit
    /\ messages = <<>>
    /\ api_key = "gsk_key"

InitResolve == ResolveInit /\ OrchestratorIdle /\ AudioIdle /\ ExtrasIdle

ResolveNext ==
    \/ Resolve
    \/ ResolveAgain

SpecResolve == InitResolve /\ [][ResolveNext]_vars

\* the message log alone: rows up to MaxLog, timestamps 0..MaxClock
MaxLog == 3
MaxClock == 2

\* the rows taken in every order that ORDER BY timestamp DESC allows: rows
\* of equal timestamp come in an order the query does not fix
NewestFirst(rows) ==
    { p \in [1..Len(rows) -> 1..Len(rows)] :
        /\ \A i, j \in 1..Len(rows) : i # j => p[i] # p[j]
        /\ \A i, j \in 1..Len(rows) :
              i < j => rows[p[i]].timestamp >= rows[p[j]].timestamp }

\* MessageManager.add_message, lines 41-65: the row gets the next id and
\* the wall-clock time of the call (datetime.now().timestamp(), which the
\* system clock may set back or repeat); a database error adds nothing and
\* returns False
LogAddMessage ==
    /\ Len(l_rows) < MaxLog
    /\ \E role \in {"user", "assistant"}, message \in {"hello", "Done."},
          timestamp \in 0..MaxClock, db_ok \in BOOLEAN :
          IF db_ok
          THEN /\ l_rows' = Append(l_rows, [id |-> Len(l_rows) + 1,
                                            timestamp |-> timestamp,
                                            role |-> role, message |-> message])
               /\ l_added' = TRUE
          ELSE /\ l_added' = FALSE
               /\ UNCHANGED l_rows
    /\ l_pc' = "added"
    /\ UNCHANGED <<l_limit, l_result>>
    /\ UNCHANGED wvars
    /\ UNCHANGED kvars
    /\ UNCHANGED rvars
    /\ UNCHANGED ovars
    /\ UNCHANGED avars

\* MessageManager.get_last_messages, lines 67-108: SELECT ... ORDER BY
\* timestamp DESC LIMIT ?, reversed, each row cut to role and message; a
\* database error returns []
LogGetLastMessages ==
    /\ \E limit \in 0..MaxLog, db_ok \in BOOLEAN, p \in NewestFirst(l_rows) :
          /\ l_limit' = limit
          /\ IF db_ok
             THEN LET n == IF Len(l_rows) < limit THEN Len(l_rows) ELSE limit
                      fetched == [i \in 1..n |-> l_rows[p[i]]]
                  IN  /\ l_result' = [i \in 1..n |->
                                         Message(Reverse(fetched)[i].role,
                                                 Reverse(fetched)[i].message)]
                      /\ l_pc' = "read"
             ELSE /\ l_result' = <<>>
                  /\ l_pc' = "unread"
    /\ UNCHANGED <<l_rows, l_added>>
    /\ UNCHANGED wvars
    /\ UNCHANGED kvars
    /\ UNCHANGED rvars
    /\ UNCHANGED ovars
    /\ UNCHANGED avars

InitLog == ResolveIdle /\ OrchestratorIdle /\ AudioIdle /\ ExtrasIdle

LogNext ==
    \/ LogAddMessage
    \/ LogGetLastMessages

SpecLog == InitLog /\ [][LogNext]_vars

\* the wake signal between the detector thread and the loop of run; the
\* detector raises it up to MaxRaises times
MaxRaises == 5

\* a variant of is_wake_detected that leaves the signal set
SignalKeptAfterTest(signal) == signal

\* is_wake_detected, line 61: wake_detected.clear()
SignalAfterTest(signal) == FALSE

\* _detection_loop, line 50: wake_detected.set(); setting a set Event
\* changes nothing
WakeSet ==
    /\ w_signal \/ w_raises < MaxRaises
    /\ w_signal' = TRUE
    /\ w_raises' = IF w_signal THEN w_raises ELSE w_raises + 1
    /\ w_raced' = (w_raced \/ w_pc = "clear")
    /\ UNCHANGED <<w_pc, w_continue, w_turns>>
    /\ UNCHANGED lvars
    /\ UNCHANGED kvars
    /\ UNCHANGED rvars
    /\ UNCHANGED ovars
    /\ UNCHANGED avars

\* run, line 103, and is_wake_detected, line 60: the test of the signal;
\* is_wake_detected is called first, whatever continue_conversation says,
\* and when it returns False the flag decides
WakeIsSet ==
    /\ w_pc = "poll"
    /\ w_pc' = IF w_signal THEN "clear" ELSE IF w_continue THEN "turn" ELSE "poll"
    /\ UNCHANGED <<w_signal, w_continue, w_raises, w_turns, w_raced>>
    /\ UNCHANGED lvars
    /\ UNCHANGED kvars
    /\ UNCHANGED rvars
    /\ UNCHANGED ovars
    /\ UNCHANGED avars

\* is_wake_detected, lines 61-62: the signal is cleared and True returned,
\* which opens the capture branch
WakeClear ==
    /\ w_pc = "clear"
    /\ w_turns <= MaxRaises
    /\ w_signal' = SignalAfterTest(w_signal)
    /\ w_turns' = w_turns + 1
    /\ w_pc' = "turn"
    /\ UNCHANGED <<w_continue, w_raises, w_raced>>
    /\ UNCHANGED lvars
    /\ UNCHANGED kvars
    /\ UNCHANGED rvars
    /\ UNCHANGED ovars
    /\ UNCHANGED avars

\* run, lines 109-146: the turn; a continuing reply goes back to the poll
\* at line 142, any other reply (or none) clears the signal at line 146
WakeTurn ==
    /\ w_pc = "turn"
    /\ \E continuing \in BOOLEAN :
          /\ w_continue' = continuing
          /\ w_signal' = WakeAfterTurn(w_signal, continuing)
    /\ w_pc' = "poll"
    /\ UNCHANGED <<w_raises, w_turns, w_raced>>
    /\ UNCHANGED lvars
    /\ UNCHANGED kvars
    /\ UNCHANGED rvars
    /\ UNCHANGED ovars
    /\ UNCHANGED avars

WakeNext ==
    \/ WakeSet
    \/ WakeIsSet
    \/ WakeClear
    \/ WakeTurn

InitWake == ResolveIdle /\ OrchestratorIdle /\ AudioIdle /\ ExtrasIdle

SpecWake == InitWake /\ [][WakeNext]_vars

(***************************************************************************)
(* The timers and alarms service: tools/clock_app.py.  All handlers and    *)
(* workers run on one event loop, so a step runs from one await to the     *)
(* next.                                                                   *)
(***************************************************************************)
\* the requests followed: timers and alarms created in all
MaxTimerCreates == 6
MaxAlarmCreates == 2

MAX_CONCURRENT_TIMERS == 5

\* line 283: the timers of the registry whose status is running
ActiveTimers(registry) ==
    Cardinality({ i \in 1..Len(registry) : registry[i] # "gone" })

\* a variant of the capacity test that lets one more timer in
AtCapacityOffByOne(active) == active > MAX_CONCURRENT_TIMERS

\* line 284: active >= MAX_CONCURRENT_TIMERS
AtCapacity(active) == active >= MAX_CONCURRENT_TIMERS

\* TimerCreate.total_seconds, line 35
TotalSeconds(minutes, seconds) == minutes * 60 + seconds

\* create_timer, lines 280-294: 409 at capacity, 400 for a duration that is
\* not positive, else the entry is registered with its worker task
CreateTimer ==
    /\ Len(k_timers) < MaxTimerCreates
    /\ \E minutes \in {0, 1}, seconds \in {0, 30} :
          IF AtCapacity(ActiveTimers(k_timers))
          THEN /\ k_reply' = 409
               /\ k_info' = "none"
               /\ UNCHANGED k_timers
          ELSE IF TotalSeconds(minutes, seconds) <= 0
          THEN /\ k_reply' = 400
               /\ k_info' = "none"
               /\ UNCHANGED k_timers
          ELSE /\ k_timers' = Append(k_timers, "running")
               /\ k_reply' = 200
               /\ k_info' = "running"
    /\ UNCHANGED <<k_alarms, k_now>>
    /\ UNCHANGED <<lvars, wvars>>
    /\ UNCHANGED rvars
    /\ UNCHANGED ovars
    /\ UNCHANGED avars

\* timer_worker, lines 224-231: the sleep is over; the status becomes fired
\* and the entry is removed in the same step
TimerFires ==
    /\ \E i \in 1..Len(k_timers) :
          /\ k_timers[i] = "running"
          /\ k_timers' = [k_timers EXCEPT ![i] = "gone"]
    /\ UNCHANGED <<k_alarms, k_now, k_reply, k_info>>
    /\ UNCHANGED <<lvars, wvars>>
    /\ UNCHANGED rvars
    /\ UNCHANGED ovars
    /\ UNCHANGED avars

\* cancel_timer, lines 300-308: 404 for an id that is not in the registry,
\* else the task is cancelled and awaited
CancelTimer ==
    /\ \E i \in 1..Len(k_timers) :
          IF k_timers[i] = "gone"
          THEN /\ k_reply' = 404
               /\ k_info' = "none"
               /\ UNCHANGED k_timers
          ELSE /\ k_timers[i] = "running"
               /\ k_timers' = [k_timers EXCEPT ![i] = "cancelling"]
               /\ UNCHANGED <<k_reply, k_info>>
    /\ UNCHANGED <<k_alarms, k_now>>
    /\ UNCHANGED <<lvars, wvars>>
    /\ UNCHANGED rvars
    /\ UNCHANGED ovars
    /\ UNCHANGED avars

\* timer_worker, lines 226-231, and cancel_timer, lines 308-310: the
\* cancelled worker sets the status, removes the entry, and the handler
\* returns the entry as it was left
TimerCancelled ==
    /\ \E i \in 1..Len(k_timers) :
          /\ k_timers[i] = "cancelling"
          /\ k_timers' = [k_timers EXCEPT ![i] = "gone"]
    /\ k_reply' = 200
    /\ k_info' = "cancelled"
    /\ UNCHANGED <<k_alarms, k_now>>
    /\ UNCHANGED <<lvars, wvars>>
    /\ UNCHANGED rvars
    /\ UNCHANGED ovars
    /\ UNCHANGED avars

\* the clock of the service moves on
ClockTick ==
    /\ k_now < MaxClock
    /\ k_now' = k_now + 1
    /\ UNCHANGED <<k_timers, k_alarms, k_reply, k_info>>
    /\ UNCHANGED <<lvars, wvars>>
    /\ UNCHANGED rvars
    /\ UNCHANGED ovars
    /\ UNCHANGED avars

\* create_alarm, lines 331-348, for a request without days: the entry is
\* registered with status active, its worker task is created, and the entry
\* is returned; nothing compares the target with the clock here
CreateAlarm ==
    /\ Len(k_alarms) < MaxAlarmCreates
    /\ \E target \in 0..MaxClock :
          k_alarms' = Append(k_alarms, [target |-> target, created_at |-> k_now,
                                        worker |-> "created",
                                        registered |-> TRUE, status |-> "active",
                                        reply |-> 200, raised |-> 0])
    /\ k_reply' = 200
    /\ k_info' = "active"
    /\ UNCHANGED <<k_timers, k_now>>
    /\ UNCHANGED <<lvars, wvars>>
    /\ UNCHANGED rvars
    /\ UNCHANGED ovars
    /\ UNCHANGED avars

\* one_time_alarm_worker, lines 236-242 and 248-250: the first step of the
\* task; a target that is not after the clock raises HTTPException(400)
\* inside the task, where no request waits for it, and the entry is removed;
\* else the worker sleeps until the target
AlarmWorkerStarts ==
    /\ \E i \in 1..Len(k_alarms) :
          /\ k_alarms[i].worker = "created"
          /\ IF k_alarms[i].target <= k_now
             THEN k_alarms' = [k_alarms EXCEPT ![i].worker = "done",
                                               ![i].registered = FALSE,
                                               ![i].raised = 400]
             ELSE k_alarms' = [k_alarms EXCEPT ![i].worker = "sleeping"]
    /\ UNCHANGED <<k_timers, k_now, k_reply, k_info>>
    /\ UNCHANGED <<lvars, wvars>>
    /\ UNCHANGED rvars
    /\ UNCHANGED ovars
    /\ UNCHANGED avars

\* one_time_alarm_worker, lines 242-250: the sleep is over, the alarm is
\* printed and the entry removed
AlarmFires ==
    /\ \E i \in 1..Len(k_alarms) :
          /\ k_alarms[i].worker = "sleeping"
          /\ k_alarms[i].target <= k_now
          /\ k_alarms' = [k_alarms EXCEPT ![i].worker = "done",
                                          ![i].registered = FALSE]
    /\ UNCHANGED <<k_timers, k_now, k_reply, k_info>>
    /\ UNCHANGED <<lvars, wvars>>
    /\ UNCHANGED rvars
    /\ UNCHANGED ovars
    /\ UNCHANGED avars

\* cancel_alarm, lines 354-363, with the worker's lines 245-250: 404 for an
\* id that is not in the registry; else the sleeping worker is cancelled,
\* sets the status, removes the entry, and the entry is returned
CancelAlarm ==
    /\ \E i \in 1..Len(k_alarms) :
          IF ~k_alarms[i].registered
          THEN /\ k_reply' = 404
               /\ k_info' = "none"
               /\ UNCHANGED k_alarms
          ELSE /\ k_alarms[i].worker = "sleeping"
               /\ k_alarms' = [k_alarms EXCEPT ![i].worker = "done",
                                               ![i].registered = FALSE,
                                               ![i].status = "cancelled"]
               /\ k_reply' = 200
               /\ k_info' = "cancelled"
    /\ UNCHANGED <<k_timers, k_now>>
    /\ UNCHANGED <<lvars, wvars>>
    /\ UNCHANGED rvars
    /\ UNCHANGED ovars
    /\ UNCHANGED avars

InitTimers == ResolveIdle /\ OrchestratorIdle /\ AudioIdle /\ ExtrasIdle

TimersNext ==
    \/ CreateTimer
    \/ TimerFires
    \/ CancelTimer
    \/ TimerCancelled

SpecTimers == InitTimers /\ [][TimersNext]_vars

InitAlarms == ResolveIdle /\ OrchestratorIdle /\ AudioIdle /\ ExtrasIdle

AlarmsNext ==
    \/ ClockTick
    \/ CreateAlarm
    \/ AlarmWorkerStarts
    \/ AlarmFires
    \/ CancelAlarm

SpecAlarms == InitAlarms /\ [][AlarmsNext]_vars

(***************************************************************************)
(* The audio threads: the stream callbacks, the detector loop on its queue *)
(* and one call of recognize_command, with the orchestrator around them.   *)
(* Time is counted in frame periods of the command stream (blocksize 8000  *)
(* at 16000 Hz: half a second); recognize_command takes a frame before the *)
(* next one arrives.                                                       *)
(***************************************************************************)
\* max_silence_duration=3.0 seconds, in frame periods
max_silence_duration == 6

\* what a frame of the wake stream holds
WakeFrames == { "noise", "alexa" }

\* wake_model.predict: the highest confidence of the frame, in hundredths
Predict(frame) == IF frame = "alexa" THEN 90 ELSE 20

\* what a frame of the command stream holds
CommandFrames == { "silence", "speech", "utterance_end", "endpoint" }

\* rec.AcceptWaveform with rec.Result or rec.PartialResult: a final result
\* (its text is empty at an endpoint with no words) or a partial one
Engine(frame) ==
    CASE frame = "utterance_end" -> [kind |-> "final", text |-> "what time is it"]
      [] frame = "endpoint" -> [kind |-> "final", text |-> ""]
      [] frame = "speech" -> [kind |-> "partial", text |-> "what"]
      [] OTHER -> [kind |-> "partial", text |-> ""]

EngineError == [kind |-> "error", text |-> ""]

LoopStep(leave, text, silence) ==
    [leave |-> leave, command_text |-> text, silence_start |-> silence]

\* a variant that keeps the final transcript and goes on listening
HandleResultListeningOn(outcome, text, silence, t) ==
    CASE outcome.kind = "error" -> LoopStep(TRUE, text, silence)
      [] outcome.kind = "final" /\ outcome.text # "" ->
            LoopStep(FALSE, outcome.text, silence)
      [] outcome.kind = "final" /\ outcome.text = "" -> LoopStep(FALSE, text, silence)
      [] outcome.kind = "partial" /\ outcome.text # "" -> LoopStep(FALSE, text, NoTime)
      [] outcome.kind = "partial" /\ outcome.text = "" /\ silence = NoTime ->
            LoopStep(FALSE, text, t)
      [] OTHER -> LoopStep(t - silence > max_silence_duration, text, silence)

\* a variant whose silence timer starts anew at every silent frame
HandleResultTimerRestarting(outcome, text, silence, t) ==
    CASE outcome.kind = "error" -> LoopStep(TRUE, text, silence)
      [] outcome.kind = "final" /\ outcome.text # "" ->
            LoopStep(TRUE, outcome.text, silence)
      [] outcome.kind = "final" /\ outcome.text = "" -> LoopStep(FALSE, text, silence)
      [] outcome.kind = "partial" /\ outcome.text # "" -> LoopStep(FALSE, text, NoTime)
      [] OTHER -> LoopStep(FALSE, text, t)

\* a variant that keeps the words of a partial result as the transcript
HandleResultKeepingPartial(outcome, text, silence, t) ==
    CASE outcome.kind = "error" -> LoopStep(TRUE, text, silence)
      [] outcome.kind = "final" /\ outcome.text # "" ->
            LoopStep(TRUE, outcome.text, silence)
      [] outcome.kind = "final" /\ outcome.text = "" -> LoopStep(FALSE, text, silence)
      [] outcome.kind = "partial" /\ outcome.text # "" ->
            LoopStep(FALSE, outcome.text, NoTime)
      [] outcome.kind = "partial" /\ outcome.text = "" /\ silence = NoTime ->
            LoopStep(FALSE, text, t)
      [] OTHER -> LoopStep(t - silence > max_silence_duration, text, silence)

\* a variant whose silence timer runs on through partial results with words
HandleResultPartialIgnored(outcome, text, silence, t) ==
    CASE outcome.kind = "error" -> LoopStep(TRUE, text, silence)
      [] outcome.kind = "final" /\ outcome.text # "" ->
            LoopStep(TRUE, outcome.text, silence)
      [] outcome.kind = "final" /\ outcome.text = "" -> LoopStep(FALSE, text, silence)
      [] outcome.kind = "partial" /\ outcome.text # "" -> LoopStep(FALSE, text, silence)
      [] outcome.kind = "partial" /\ outcome.text = "" /\ silence = NoTime ->
            LoopStep(FALSE, text, t)
      [] OTHER -> LoopStep(t - silence > max_silence_duration, text, silence)

\* lines 36-57: what one frame does to the loop: an error or a final
\* transcript with words leaves it, words in a partial result clear the
\* silence timer, an empty partial result starts the timer or, once it has
\* run for more than max_silence_duration, leaves the loop
HandleResult(outcome, text, silence, t) ==
    CASE outcome.kind = "error" -> LoopStep(TRUE, text, silence)
      [] outcome.kind = "final" /\ outcome.text # "" ->
            LoopStep(TRUE, outcome.text, silence)
      [] outcome.kind = "final" /\ outcome.text = "" -> LoopStep(FALSE, text, silence)
      [] outcome.kind = "partial" /\ outcome.text # "" -> LoopStep(FALSE, text, NoTime)
      [] outcome.kind = "partial" /\ outcome.text = "" /\ silence = NoTime ->
            LoopStep(FALSE, text, t)
      [] OTHER -> LoopStep(t - silence > max_silence_duration, text, silence)

\* AudioManager.wake_word_callback: the wake stream queues a frame
WakeWordCallback ==
    /\ wake_stream
    /\ Len(wake_queue) < MaxWakeFrames
    /\ \E frame \in WakeFrames : wake_queue' = Append(wake_queue, frame)
    /\ UNCHANGED <<audio_queue, now, rec_pc, rec_text, silence_start, fed, heard,
                   final_at, resubmitted>>
    /\ UNCHANGED dvars
    /\ UNCHANGED ovars
    /\ UNCHANGED timer_reset
    /\ UNCHANGED svars
    /\ UNCHANGED rvars
    /\ UNCHANGED xvars

\* a variant of the loop condition that never sees the stop
LoopConditionAlways(flag) == TRUE

\* _detection_loop, line 39: while self.running
LoopCondition(flag) == flag

\* a variant that takes an error of the model for a detection
WakeAfterRoundErrorCounts(model_ok, frame, wake) ==
    IF ~model_ok \/ Predict(frame) > confidence_threshold THEN TRUE ELSE wake

\* _detection_loop, lines 44-54: the signal is set when the model returns a
\* confidence above the threshold; an exception of the model is caught at
\* line 53 and sets nothing
WakeAfterRound(model_ok, frame, wake) ==
    IF model_ok /\ Predict(frame) > confidence_threshold THEN TRUE ELSE wake

\* _detection_loop, line 39: the loop condition; the loop ends when
\* stop() has cleared running
DetectorCheck ==
    /\ d_pc = "check"
    /\ d_pc' = IF LoopCondition(detector_running) THEN "round" ELSE "exited"
    /\ UNCHANGED <<wake_queue, audio_queue, now, rec_pc, rec_text, silence_start,
                   fed, heard, final_at, resubmitted, stopped_calls, last_predict>>
    /\ UNCHANGED ovars
    /\ UNCHANGED timer_reset
    /\ UNCHANGED svars
    /\ UNCHANGED rvars
    /\ UNCHANGED xvars

\* _detection_loop, lines 40-56: one round of the loop; a frame found in the
\* queue goes to the model whether the signal is set or not, an empty queue
\* leaves everything as it is, and either way the loop goes back to its
\* condition after the sleep
DetectionRound ==
    /\ d_pc = "round"
    /\ d_pc' = "check"
    /\ IF wake_queue = <<>>
       THEN UNCHANGED <<wake_queue, resubmitted, wake_detected, stopped_calls,
                        last_predict>>
       ELSE /\ wake_queue' = Tail(wake_queue)
            /\ resubmitted' = (resubmitted \/ wake_detected)
            /\ stopped_calls' = IF detector_running THEN stopped_calls
                                                    ELSE stopped_calls + 1
            /\ \E model_ok \in BOOLEAN :
                  /\ wake_detected' = WakeAfterRound(model_ok, Head(wake_queue),
                                                     wake_detected)
                  /\ last_predict' = IF model_ok THEN "returned" ELSE "error"
    /\ UNCHANGED <<audio_queue, now, rec_pc, rec_text, silence_start, fed, heard,
                   final_at>>
    /\ UNCHANGED <<pc, running, continue_conversation, listening_for_command,
                   detector_running, wake_stream, command_stream, messages, api_key,
                   command_text, resolution, response, temperature, retry_count,
                   calls, sounds, trigger, waited, log_mark, fault, turns,
                   in_flight, dropped>>
    /\ UNCHANGED timer_reset
    /\ UNCHANGED svars
    /\ UNCHANGED rvars
    /\ UNCHANGED xvars

\* AudioManager.command_callback: the command stream queues a frame, one
\* frame period after the one before
CommandCallback ==
    /\ command_stream
    /\ audio_queue = <<>>
    /\ now < MaxTime
    /\ \E frame \in CommandFrames : audio_queue' = <<frame>>
    /\ pushed_turn' = turns
    /\ UNCHANGED fed_stale
    /\ now' = now + 1
    /\ UNCHANGED <<wake_queue, rec_pc, rec_text, silence_start, fed, heard,
                   final_at, resubmitted>>
    /\ UNCHANGED dvars
    /\ UNCHANGED ovars
    /\ UNCHANGED timer_reset
    /\ UNCHANGED rvars
    /\ UNCHANGED xvars

\* recognize_command, lines 20-28: the recognizer is created, outside the
\* try of the loop
RecognizeCommand ==
    /\ pc = "Capturing"
    /\ rec_pc = "Idle"
    /\ \E created \in BOOLEAN :
          rec_pc' = IF created THEN "Listening" ELSE "Raised"
    /\ rec_text' = ""
    /\ silence_start' = NoTime
    /\ timer_reset' = FALSE
    /\ UNCHANGED <<wake_queue, audio_queue, now, fed, heard, final_at, resubmitted>>
    /\ UNCHANGED dvars
    /\ UNCHANGED ovars
    /\ UNCHANGED svars
    /\ UNCHANGED rvars
    /\ UNCHANGED xvars

\* recognize_command, lines 30-59: one round of the loop that finds a frame
\* (a round that finds none changes nothing), or the exit of the loop when
\* the listening event is not set; leaving the loop returns command_text
Listen ==
    /\ rec_pc = "Listening"
    /\ IF ~listening_for_command
       THEN /\ rec_pc' = "Returned"
            /\ UNCHANGED <<audio_queue, rec_text, silence_start, fed, heard, final_at,
                           timer_reset, fed_stale>>
       ELSE /\ audio_queue # <<>>
            /\ \E engine_ok \in BOOLEAN :
                  LET outcome == IF engine_ok THEN Engine(Head(audio_queue))
                                              ELSE EngineError
                      step == HandleResult(outcome, rec_text, silence_start, now)
                  IN  /\ rec_text' = step.command_text
                      /\ silence_start' = step.silence_start
                      /\ rec_pc' = IF step.leave THEN "Returned" ELSE "Listening"
                      /\ heard' = IF outcome.kind = "error" THEN "error"
                                  ELSE IF heard = "error" THEN heard
                                  ELSE IF heard \in {"nothing", "silence"}
                                          /\ outcome = Engine("silence")
                                       THEN "silence"
                                       ELSE "sound"
                      /\ final_at' = IF outcome.kind = "final" /\ outcome.text # ""
                                     THEN fed + 1
                                     ELSE final_at
                      /\ timer_reset' =
                            \/ timer_reset
                            \/ /\ outcome.kind = "partial" /\ outcome.text # ""
                               /\ silence_start # NoTime
            /\ audio_queue' = Tail(audio_queue)
            /\ fed' = fed + 1
            /\ fed_stale' = (fed_stale \/ pushed_turn < turns)
    /\ UNCHANGED <<wake_queue, now, resubmitted, pushed_turn>>
    /\ UNCHANGED dvars
    /\ UNCHANGED ovars
    /\ UNCHANGED rvars
    /\ UNCHANGED xvars

\* lines 121-128: recognize_command has returned; the command stream
\* closes and the listening event is cleared
EndCapture ==
    /\ pc = "Capturing"
    /\ rec_pc = "Returned"
    /\ command_text' = rec_text
    /\ in_flight' = in_flight - 1
    /\ command_stream' = FALSE
    /\ listening_for_command' = FALSE
    /\ pc' = "Processing"
    /\ UNCHANGED <<running, continue_conversation, wake_detected, detector_running,
                   wake_stream, messages, api_key, resolution, response, temperature,
                   retry_count, calls, sounds, trigger, waited, log_mark, fault,
                   turns, dropped>>
    /\ UNCHANGED avars
    /\ UNCHANGED rvars
    /\ UNCHANGED xvars

\* lines 121-126 and 154-157: recognize_command has raised; the exception
\* leaves the with blocks and the loop, and cleanup runs
CaptureFailed ==
    /\ pc = "Capturing"
    /\ rec_pc = "Raised"
    /\ Crash("recognizer")
    /\ in_flight' = in_flight - 1
    /\ command_stream' = FALSE
    /\ UNCHANGED <<continue_conversation, listening_for_command, wake_detected,
                   messages, api_key, command_text, resolution, response,
                   temperature, retry_count, calls, sounds, trigger, waited,
                   log_mark, turns, dropped>>
    /\ UNCHANGED avars
    /\ UNCHANGED rvars
    /\ UNCHANGED xvars

\* a stop request (the interrupt of lines 151-163) at the poll or during the
\* capture: the awaited call is abandoned, the with blocks close both
\* streams and cleanup stops the detector; the listening event is not
\* touched and recognize_command goes on in its executor thread
Cleanup ==
    /\ pc \in {"WaitingForWake", "Capturing"}
    /\ running
    /\ Crash("stop")
    /\ command_stream' = FALSE
    /\ UNCHANGED <<continue_conversation, listening_for_command, wake_detected,
                   messages, api_key,
                   command_text, resolution, response, temperature, retry_count,
                   calls, sounds, trigger, waited, log_mark, turns, in_flight,
                   dropped>>
    /\ UNCHANGED avars
    /\ UNCHANGED rvars
    /\ UNCHANGED xvars

InitAudio == ResolveIdle /\ OrchestratorIdle /\ AudioIdle /\ ExtrasIdle

AudioNext ==
    \/ WakeWordCallback
    \/ DetectorCheck
    \/ DetectionRound
    \/ Poll
    \/ CommandCallback
    \/ RecognizeCommand
    \/ Listen
    \/ EndCapture
    \/ CaptureFailed
    \/ Cleanup

SpecAudio == InitAudio /\ [][AudioNext]_vars

\* the threads keep running: the detector, the recognizer and the callbacks
\* of the open streams take their steps
SpecAudioLive ==
    /\ InitAudio
    /\ [][AudioNext]_vars
    /\ WF_vars(DetectorCheck)
    /\ WF_vars(DetectionRound)
    /\ WF_vars(RecognizeCommand)
    /\ WF_vars(Listen)
    /\ WF_vars(CommandCallback)
    /\ WF_vars(WakeWordCallback)

(***************************************************************************)
(* Properties of the resolver (under SpecResolve).                         *)
(***************************************************************************)
\* the confidence of row i of a table for the transcript given
RowConfidence(rows, i) == Confidence(Encode(r_text), rows[i].tool_embedding)

\* the rows of a table that hold an embedding
Embedded(rows) == { i \in 1..Len(rows) : rows[i].tool_embedding # NoEmbedding }

\* C1: for a transcript that is not blank, when some simple tool reaches
\* simple_threshold the result is of kind simple and names a simple tool of
\* the highest confidence among the simple tools, with that confidence,
\* whatever the confidences of the intelligent tools are.
C1_SimplePreemptsIntelligent ==
    ( /\ r_pc = "done"
      /\ Strip(r_text) # ""
      /\ \E i \in Embedded(r_simple) : RowConfidence(r_simple, i) >= simple_threshold )
    => /\ r_result.tool_type = "simple"
       /\ \E i \in Embedded(r_simple) :
             /\ r_result.tool_id = r_simple[i].tool_id
             /\ r_result.confidence = RowConfidence(r_simple, i)
             /\ \A j \in Embedded(r_simple) :
                   RowConfidence(r_simple, j) <= RowConfidence(r_simple, i)

\* C1, witness: a simple result although an intelligent tool scores higher
C1_Witness ==
    /\ r_pc = "done"
    /\ r_result.tool_type = "simple"
    /\ \E j \in Embedded(r_intelligent) :
          RowConfidence(r_intelligent, j) > r_result.confidence

(***************************************************************************)
(* Properties of the orchestrator and the executor (under Spec).           *)
(***************************************************************************)
Played(sound) == \E i \in 1..Len(sounds) : sounds[i] = sound

\* get_ai_response has returned (or was never called) for the calls on record
Returned == pc # "Calling"

IsJsonError(outcome) == outcome.kind = "raise" /\ outcome.error \in JsonErrors

\* a reply that is not JSON, or is JSON without the message field
IsMalformedReply(outcome) ==
    /\ outcome.kind = "reply"
    /\ \/ ~JsonLoads(outcome.content).ok
       \/ "message" \notin DOMAIN JsonLoads(outcome.content).value

\* a reply that parses and has the message field
IsGoodReply(outcome) == outcome.kind = "reply" /\ ~IsMalformedReply(outcome)

\* C2: with continue_conversation set the orchestrator never waits at the
\* poll: the poll that follows a continuing reply opens the capture window,
\* wake signal or not, so no poll has found nothing to do while the flag is set.
C2_ContinueOpensCapture ==
    (pc = "WaitingForWake" /\ continue_conversation) => ~waited

\* C2, witness: the third window of a run, opened with no wake signal
\* raised, after two continuing replies in a row
C2_Witness ==
    /\ pc = "Capturing"
    /\ turns = 3
    /\ trigger = "continue"
    /\ ~wake_detected
    /\ Len(messages) = 4
    /\ messages[2].message = "Sure, what else?"
    /\ messages[4].message = "Sure, what else?"

\* C3 (as claimed): a capture window opened by continue_conversation, not by
\* a wake signal, is opened without the ready tone.
C3_NoReadyToneOnContinue ==
    (pc = "Capturing" /\ trigger = "continue") => ~Played("sources/ready.mp3")

\* C3 (amended): the ready tone is played before every capture window, the
\* one opened by continue_conversation like the one opened by a wake signal.
C3_ReadyToneBeforeEveryCapture ==
    pc = "Capturing" => sounds = <<"sources/ready.mp3">>

\* C3, witness: a capture window opened by continue_conversation
C3_Witness ==
    /\ pc = "Capturing"
    /\ trigger = "continue"
    /\ response # None
    /\ response.continue_conversation

\* C4: no turn makes more than two backend calls; when the first call raises
\* a JSON validation error, get_ai_response makes exactly one more call, the
\* first at temperature 1 and the retry at the lower 0.3; and when the retry
\* replies well, that reply is what is returned.
C4_RetryOnceAtLowerTemperature ==
    /\ Len(calls) <= 2
    /\ (Returned /\ calls # <<>> /\ IsJsonError(calls[1].outcome))
       => /\ Len(calls) = 2
          /\ calls[1].request.temperature = 10
          /\ calls[2].request.temperature = 3
          /\ calls[2].request.temperature < calls[1].request.temperature
          /\ IsGoodReply(calls[2].outcome)
             => response = JsonLoads(calls[2].outcome.content).value

\* C4, witness: a failed first call and a retry whose reply is returned
C4_Witness ==
    /\ pc = "Speaking"
    /\ Len(calls) = 2
    /\ IsJsonError(calls[1].outcome)
    /\ IsGoodReply(calls[2].outcome)
    /\ response = Envelope("Sure, what else?", TRUE)

\* C5: when the first call and the retry both raise a JSON validation error,
\* the fixed apology is returned with continue_conversation false, after two
\* calls and no more.
C5_DoubleFailureApology ==
    ( /\ Returned
      /\ Len(calls) >= 2
      /\ IsJsonError(calls[1].outcome)
      /\ IsJsonError(calls[2].outcome) )
    => /\ Len(calls) = 2
       /\ response = [message |-> "Sorry, I couldn't process your request right now.",
                      continue_conversation |-> FALSE]

\* C5, witness: two JSON validation errors in a row
C5_Witness ==
    /\ pc = "Speaking"
    /\ Len(calls) = 2
    /\ IsJsonError(calls[1].outcome)
    /\ IsJsonError(calls[2].outcome)

C7_EnvelopeComplete ==
    (pc = "Speaking" /\ response # None)
    => /\ DOMAIN response = {"message", "continue_conversation"}
       /\ response.continue_conversation \in BOOLEAN

\* C8 (as claimed): a turn that reaches the language-model path has appended
\* the transcript as a user message and then the returned reply as an
\* assistant message, and nothing else.
C8_OneUserOneAssistant ==
    (pc = "Speaking" /\ response # None /\ resolution.tool_type # "simple")
    => messages = SubSeq(messages, 1, log_mark)
                    \o << Message("user", command_text),
                          Message("assistant", response.message) >>

\* C9 (as claimed): the request of a turn of kind intelligent carries the
\* tool and so differs from the request of the same transcript and log with
\* no tool.
C9_ToolContextInRequest ==
    (resolution.tool_type = "intelligent" /\ calls # <<>>)
    => calls[1].request #
          Request(command_text, NoneId, default_temperature,
                  SubSeq(messages, 1, log_mark + 1))

\* C10 (as claimed): the loop is never ended by a fault of the embedding
\* model, the registry, the backend or the text-to-speech.
C10_FaultNeverEndsLoop ==
    pc = "Stopped" => fault \notin {"embedding", "registry", "backend", "tts"}

\* C11 (as claimed): the wake stream and the command stream are never open
\* at the same time.
C11_StreamsExclusive == ~(wake_stream /\ command_stream)

\* C13: at most one call of recognize_command is in flight: the call is in
\* flight exactly while the loop is at the capture, and the listening event
\* and the command stream are set for that call only.
C13_OneCaptureWindow ==
    /\ in_flight <= 1
    /\ in_flight = 1 <=> pc = "Capturing"
    /\ listening_for_command <=> pc = "Capturing"
    /\ command_stream <=> pc = "Capturing"

\* C13, witness: the third window of a run is open, a wake signal raised
\* by the detector while it is open
C13_Witness ==
    /\ pc = "Capturing"
    /\ turns = 3
    /\ in_flight = 1
    /\ wake_detected

\* the transcripts that are empty or whitespace only
BlankTexts == { "", " " }

\* the turn at hand, or the one just ended, had a blank transcript
BlankTurn == turns > 0 /\ command_text \in BlankTexts

\* C18: a blank transcript aborts the turn: the resolver, the executor and
\* the backend are not reached and the loop does not end on it; there is no
\* reply, no message is appended, nothing is played after the ready tone but
\* the two low tones, continue_conversation is false and the turn ends at
\* the loop head.
C18_BlankTranscriptAbortsTurn ==
    /\ pc \in {"Resolving", "Executing", "Calling", "Stopped"} => ~BlankTurn
    /\ (pc \in {"Speaking", "WaitingForWake"} /\ BlankTurn)
       => /\ response = None
          /\ Len(messages) = log_mark
          /\ calls = <<>>
          /\ sounds = <<"sources/ready.mp3", "low_beep", "low_beep">>
          /\ ~continue_conversation

\* C18, witness: a window opened by continue_conversation got a
\* whitespace-only transcript and the loop is back at its head, the flag off
C18_Witness ==
    /\ pc = "WaitingForWake"
    /\ turns = 2
    /\ trigger = "continue"
    /\ command_text = " "
    /\ ~continue_conversation
    /\ messages[Len(messages)].message = "Sure, what else?"

\* C19: a turn that ends with continue_conversation false (or with no reply)
\* leaves the flag false and the wake signal cleared when the loop is back
\* at its head, whatever the detector raised during the turn.
C19_TurnEndResetsWake ==
    [][ ( /\ pc = "Speaking"
          /\ pc' = "WaitingForWake"
          /\ (response = None \/ ~response.continue_conversation) )
        => (~continue_conversation' /\ ~wake_detected') ]_vars

\* C19, witness: a wake signal raised during a turn whose reply does not
\* continue was cleared at the turn's end
C19_Witness ==
    /\ pc = "WaitingForWake"
    /\ dropped
    /\ response # None
    /\ ~continue_conversation
    /\ ~wake_detected

\* C20: for a transcript that is not blank, when every simple tool scores
\* below simple_threshold and every intelligent tool below
\* intelligent_tool_threshold, process_command returns kind none, no tool
\* id and confidence 0.
C20_BelowBothIsNone ==
    ( /\ r_pc = "done"
      /\ r_text \notin {"", " "}
      /\ \A i \in Embedded(r_simple) : RowConfidence(r_simple, i) < simple_threshold
      /\ \A j \in Embedded(r_intelligent) :
            RowConfidence(r_intelligent, j) < intelligent_tool_threshold )
    => r_result = [tool_type |-> "None", tool_id |-> NoneId, confidence |-> 0]

\* C20, witness: both tables hold tools that score above zero and below
\* their thresholds, and the result is none
C20_Witness ==
    /\ r_pc = "done"
    /\ r_text = "tell me a joke"
    /\ \E i \in Embedded(r_simple) :
          RowConfidence(r_simple, i) > 0 /\ RowConfidence(r_simple, i) < simple_threshold
    /\ \E j \in Embedded(r_intelligent) :
          /\ RowConfidence(r_intelligent, j) > 0
          /\ RowConfidence(r_intelligent, j) < intelligent_tool_threshold
    /\ r_result.tool_type = "None"
    /\ r_result.confidence = 0

(***************************************************************************)
(* Properties of the detector loop and of recognize_command (under         *)
(* SpecAudio and SpecAudioLive).                                           *)
(***************************************************************************)
\* C12 (as claimed): while the wake signal is set and not yet consumed, the
\* detector loop gives no frame to the wake-word model.
C12_NoSubmissionWhilePending == ~resubmitted

C15_FinalTranscriptReturnsAtOnce ==
    final_at # 0
    => /\ rec_pc = "Returned"
       /\ fed = final_at
       /\ rec_text = "what time is it"

\* C15, witness: the final transcript came on the third frame, with a
\* frame waiting in the queue that is never fed
C15_Witness ==
    /\ rec_pc = "Returned"
    /\ final_at = 3
    /\ fed = 3
    /\ audio_queue # <<>>
    /\ rec_text = "what time is it"

\* C16 (as claimed): an error of the speech engine during a capture window
\* never leaves recognize_command: the call returns the empty transcript
\* and the loop of the orchestrator is not ended by it.
C16_EngineErrorAbortsWindow ==
    /\ rec_pc # "Raised"
    /\ fault # "recognizer"
    /\ heard = "error" => (rec_pc = "Returned" /\ rec_text = "")

\* C17 (as claimed): a stop while recognize_command is listening ends the
\* listening loop: the call returns.
C17_StopCancelsCapture ==
    (fault = "stop" /\ rec_pc = "Listening") ~> (rec_pc = "Returned")

(***************************************************************************)
(* More properties of the resolver (under SpecResolve).                    *)
(***************************************************************************)
\* the embedded rows of a table that score highest for the transcript
Top(rows) ==
    { i \in Embedded(rows) :
        \A j \in Embedded(rows) : RowConfidence(rows, j) <= RowConfidence(rows, i) }

NotBlank == r_text \notin {"", " "}

\* C21: for a transcript that is not blank, when no simple tool with an
\* embedding reaches simple_threshold and some intelligent tool reaches
\* intelligent_tool_threshold, the result is of kind intelligent and names
\* an intelligent tool of the highest confidence, with that confidence.
C21_IntelligentFallback ==
    ( /\ r_pc = "done"
      /\ NotBlank
      /\ \A i \in Embedded(r_simple) : RowConfidence(r_simple, i) < simple_threshold
      /\ \E j \in Embedded(r_intelligent) :
            RowConfidence(r_intelligent, j) >= intelligent_tool_threshold )
    => /\ r_result.tool_type = "intelligent"
       /\ \E j \in Top(r_intelligent) :
             /\ r_result.tool_id = r_intelligent[j].tool_id
             /\ r_result.confidence = RowConfidence(r_intelligent, j)

\* C21, witness: a simple tool scores above zero but below its threshold
\* and the result is an intelligent tool
C21_Witness ==
    /\ r_pc = "done"
    /\ r_result.tool_type = "intelligent"
    /\ \E i \in Embedded(r_simple) :
          RowConfidence(r_simple, i) > 0 /\ RowConfidence(r_simple, i) < simple_threshold
    /\ \E j \in Embedded(r_intelligent) : RowConfidence(r_intelligent, j) < r_result.confidence

\* C22 (as claimed): when several tools of the table tie for the highest
\* similarity, the result names the one of the lowest id, in whatever order
\* the store returned the rows.
C22_TieGoesToLowestId ==
    /\ (r_pc = "done" /\ r_result.tool_type = "simple")
       => \A i \in Top(r_simple) : r_result.tool_id <= r_simple[i].tool_id
    /\ (r_pc = "done" /\ r_result.tool_type = "intelligent")
       => \A j \in Top(r_intelligent) : r_result.tool_id <= r_intelligent[j].tool_id

C24_BlankTextResolvesAtOnce ==
    (r_pc = "done" /\ ~NotBlank)
    => /\ r_result = [tool_type |-> "None", tool_id |-> NoneId, confidence |-> 0]
       /\ r_calls = <<>>

\* C24, witness: a whitespace-only text against tables that hold tools
C24_Witness ==
    /\ r_pc = "done"
    /\ r_text = " "
    /\ Embedded(r_simple) # {}
    /\ Embedded(r_intelligent) # {}
    /\ r_calls = <<>>

\* C25: an empty table, a table that cannot be read (the store returns the
\* empty list for it) and a row without an embedding raise nothing; a tool
\* without an embedding is never returned; and with no simple tool to match
\* the intelligent table decides, then none.
C25_MissingRegistriesNeverMatch ==
    /\ GetSimpleToolEmbeddings(FALSE) = <<>>
    /\ GetIntelligentToolEmbeddings(FALSE) = <<>>
    /\ (r_pc = "done" /\ NotBlank)
       => /\ r_result.tool_type # "raise"
          /\ r_result.tool_type = "simple"
             => \E i \in Embedded(r_simple) : r_result.tool_id = r_simple[i].tool_id
          /\ r_result.tool_type = "intelligent"
             => \E j \in Embedded(r_intelligent) :
                   r_result.tool_id = r_intelligent[j].tool_id
          /\ Embedded(r_simple) = {}
             => /\ r_result.tool_type # "simple"
                /\ r_calls[Len(r_calls)] = "get_intelligent_tool_embeddings"
                /\ r_result.tool_type = "intelligent"
                   <=> \E j \in Embedded(r_intelligent) :
                          RowConfidence(r_intelligent, j) >= intelligent_tool_threshold
          /\ (Embedded(r_simple) = {} /\ Embedded(r_intelligent) = {})
             => r_result.tool_type = "None"

\* C25, witness: the simple table holds rows without embeddings only, the
\* intelligent table a row without one and a row that matches, which is
\* what is returned
C25_Witness ==
    /\ r_pc = "done"
    /\ r_simple # <<>>
    /\ Embedded(r_simple) = {}
    /\ Len(r_intelligent) = 2
    /\ r_intelligent[1].tool_embedding = NoEmbedding
    /\ r_result.tool_type = "intelligent"
    /\ r_result.tool_id = r_intelligent[2].tool_id

KnownNames ==
    { "turn_on_bedroom_lamp", "turn_off_bedroom_lamp", "turn_on_living_room_lamp",
      "turn_off_living_room_lamp", "turn_on_all_lights", "turn_off_all_lights",
      "get_time", "get_weather", "volume_up", "volume_down", "mute", "unmute",
      "private_mode_on", "private_mode_off", "switch_voice" }

\* the turn at hand resolved its transcript to a simple tool
SimpleTurn == Strip(command_text) # "" /\ resolution.tool_type = "simple"

C28_ModelErrorNotFatal ==
    /\ [](d_pc = "exited" => ~detector_running)
    /\ [][ (Len(wake_queue') < Len(wake_queue) /\ last_predict' = "error")
           => /\ wake_detected' = wake_detected
              /\ d_pc' = "check"
              /\ detector_running' = detector_running ]_vars

\* C28, witness: the last call of the model has raised, the wake signal is
\* not set, and the loop has passed its condition again and is in the round
\* that takes the next frame
C28_Witness ==
    /\ last_predict = "error"
    /\ ~wake_detected
    /\ detector_running
    /\ d_pc = "round"
    /\ wake_queue # <<>>

\* C29: after stop() the loop begins at most one more call of the model,
\* the loop then ends, and once it has ended no frame is taken and the wake
\* signal is not set.
C29_StopEndsDetector ==
    /\ [](stopped_calls <= 1)
    /\ [][ d_pc = "exited"
           => /\ d_pc' = "exited"
              /\ Len(wake_queue') >= Len(wake_queue)
              /\ wake_detected' => wake_detected ]_vars
    /\ (~detector_running) ~> (d_pc = "exited")

\* C29, witness: the stop came between the loop condition and the round;
\* the round has given one frame to the model, and the loop has ended with a
\* frame left in the queue
C29_Witness ==
    /\ ~detector_running
    /\ stopped_calls = 1
    /\ d_pc = "exited"
    /\ wake_queue # <<>>

\* C30 (as claimed): the wake queue never holds more than a fixed number of
\* frames, whatever the detector does; here the number is one less than
\* the length to which the queue is followed.
C30_QueuesBounded == Len(wake_queue) < MaxWakeFrames

(***************************************************************************)
(* The message log (under SpecLog).                                        *)
(***************************************************************************)
\* C31 (as claimed): get_last_messages(n) returns the min(n, length) rows
\* appended last, in the order of their appends.
C31_LastMessagesInAppendOrder ==
    l_pc = "read"
    => LET n == IF Len(l_rows) < l_limit THEN Len(l_rows) ELSE l_limit
       IN  l_result = [i \in 1..n |->
                         Message(l_rows[Len(l_rows) - n + i].role,
                                 l_rows[Len(l_rows) - n + i].message)]

(***************************************************************************)
(* One capture window after another: the orchestrator loop with the        *)
(* recognizer and the command stream, the detector and what follows the    *)
(* capture in a turn taken as a whole.                                     *)
(***************************************************************************)
\* lines 130-149: the turn is processed and spoken; its envelope keeps the
\* conversation open or closes it, or an exception ends the loop; the call
\* of recognize_command is over and its locals are gone
TurnEnds ==
    /\ pc = "Processing"
    /\ \E outcome \in {"continue", "close", "raise"} :
          IF outcome = "raise"
          THEN /\ Crash("turn")
               /\ UNCHANGED <<continue_conversation, wake_detected>>
          ELSE /\ continue_conversation' = (outcome = "continue")
               /\ wake_detected' = WakeAfterTurn(wake_detected, outcome = "continue")
               /\ pc' = "WaitingForWake"
               /\ UNCHANGED <<running, detector_running, wake_stream, fault>>
    /\ rec_pc' = "Idle"
    /\ rec_text' = ""
    /\ silence_start' = NoTime
    /\ fed' = 0
    /\ heard' = "nothing"
    /\ final_at' = 0
    /\ timer_reset' = FALSE
    /\ UNCHANGED <<listening_for_command, command_stream, messages, api_key,
                   command_text, resolution, response, temperature, retry_count,
                   calls, sounds, trigger, waited, log_mark, turns, in_flight,
                   dropped>>
    /\ UNCHANGED <<wake_queue, audio_queue, now, resubmitted>>
    /\ UNCHANGED dvars
    /\ UNCHANGED svars
    /\ UNCHANGED rvars
    /\ UNCHANGED xvars

WindowsNext ==
    \/ DetectionLoop
    \/ Poll
    \/ CommandCallback
    \/ RecognizeCommand
    \/ Listen
    \/ EndCapture
    \/ CaptureFailed
    \/ TurnEnds

SpecWindows == InitAudio /\ [][WindowsNext]_vars

\* the program's own threads keep running; the streams deliver frames or
\* do not, as the devices do
SpecAudioThreads ==
    /\ InitAudio
    /\ [][AudioNext]_vars
    /\ WF_vars(DetectorCheck)
    /\ WF_vars(DetectionRound)
    /\ WF_vars(RecognizeCommand)
    /\ WF_vars(Listen)
    /\ WF_vars(EndCapture)

(***************************************************************************)
(* More properties of the capture window (under SpecAudio).                *)
(***************************************************************************)
\* the step of recognize_command that takes a frame the engine accepts
TakesFrame == rec_pc = "Listening" /\ fed' = fed + 1 /\ heard' # "error"

\* C32: a frame with a partial result with words clears the silence timer
\* and the capture stays in Listening; the timer starts at the first frame
\* without words after that and is not moved by the frames without words
\* that follow; and the capture ends by silence only at a frame without
\* words taken more than max_silence_duration after the timer started.
C32_PartialResetsSilenceTimer ==
    [][ TakesFrame
        => /\ Head(audio_queue) = "speech"
              => silence_start' = NoTime /\ rec_pc' = "Listening"
           /\ (Head(audio_queue) = "silence" /\ silence_start = NoTime)
              => silence_start' = now /\ rec_pc' = "Listening"
           /\ (Head(audio_queue) \in {"silence", "endpoint"} /\ silence_start # NoTime)
              => silence_start' = silence_start
           /\ (rec_pc' = "Returned" /\ final_at' = final_at)
              => /\ Head(audio_queue) = "silence"
                 /\ silence_start # NoTime
                 /\ now - silence_start > max_silence_duration ]_vars

\* C32, witness: a partial result with words has cleared a running timer,
\* and the capture has ended by silence, counted from a later frame
C32_Witness ==
    /\ rec_pc = "Returned"
    /\ timer_reset
    /\ heard = "sound"
    /\ final_at = 0
    /\ silence_start > 2
    /\ now - silence_start > max_silence_duration

\* C33 (as claimed): every capture window that no stop interrupts closes:
\* recognize_command returns, whatever the command queue delivers.
C33_WindowAlwaysCloses ==
    (rec_pc = "Listening" /\ fault = "none")
    ~> (rec_pc = "Returned" \/ fault # "none")

\* C35: recognize_command returns words only when the engine gave a final
\* result with words in the window, and then those words; a window that
\* ended otherwise (silence, engine error, cleared event), whatever its
\* partial results said, returns the empty string.
C35_OnlyFinalTextReturned ==
    /\ rec_pc = "Returned"
       => /\ rec_text # "" => final_at # 0 /\ rec_text = Engine("utterance_end").text
          /\ final_at = 0 => rec_text = ""
          /\ heard = "error" => rec_text = ""
    /\ rec_pc \in {"Idle", "Listening", "Raised"} => rec_text = ""
    /\ pc = "Processing" /\ final_at = 0 => command_text = ""

\* C35, witness: partial results with words were seen (one cleared the
\* running timer), the window ended by silence and the empty string went
\* to the orchestrator
C35_Witness ==
    /\ pc = "Processing"
    /\ rec_pc = "Returned"
    /\ timer_reset
    /\ final_at = 0
    /\ heard = "sound"
    /\ command_text = ""

(***************************************************************************)
(* The command queue from one window to the next (under SpecWindows).      *)
(***************************************************************************)
\* C34 (as claimed): the recognizer is never given a frame that was queued
\* in an earlier turn.
C34_NoFrameFromEarlierWindow == ~fed_stale

(***************************************************************************)
(* The requests of a turn and the triggers of a capture (under Spec).      *)
(***************************************************************************)
\* the last message of the request of the k-th backend call of the turn
LastOfRequest(k) == calls[k].request.messages[Len(calls[k].request.messages)]

C37_CaptureNeedsTrigger ==
    /\ []((pc \in {"WaitingForWake", "Capturing"} /\ continue_conversation)
          => turns >= 1 /\ response # None /\ response.continue_conversation)
    /\ [](turns = 0 => pc = "WaitingForWake" /\ ~command_stream)
    /\ [][ (pc # "Capturing" /\ pc' = "Capturing")
           => /\ pc = "WaitingForWake"
              /\ \/ wake_detected /\ ~wake_detected' /\ trigger' = "wake"
                 \/ ~wake_detected /\ continue_conversation /\ trigger' = "continue" ]_vars

\* C37, witness: the second window of a run, opened by a wake signal after
\* a reply that closed the conversation, the signal consumed
C37_Witness ==
    /\ pc = "Capturing"
    /\ turns = 2
    /\ trigger = "wake"
    /\ ~continue_conversation
    /\ ~wake_detected
    /\ response # None

(***************************************************************************)
(* The wake signal (under SpecWake).                                       *)
(***************************************************************************)
\* C38: is_wake_detected has returned True no more often than the detector
\* has raised the signal, under every interleaving of the two threads.
C38_OneTurnPerRaise == w_turns <= w_raises

\* C38, witness: the detector set the signal again between the test and
\* the clear of is_wake_detected, and every raise so far started a turn
C38_Witness ==
    /\ w_raced
    /\ w_pc = "turn"
    /\ w_raises >= 2
    /\ w_turns = w_raises
    /\ ~w_signal

(***************************************************************************)
(* The timers and alarms service (under SpecTimers and SpecAlarms).        *)
(***************************************************************************)
\* C39: the registry never holds more than MAX_CONCURRENT_TIMERS running
\* timers; a create answered by 409 leaves the registry as it was, and it
\* is answered so only at capacity; a timer that fired or was cancelled is
\* out of the registry.
C39_TimersWithinCapacity ==
    /\ [](ActiveTimers(k_timers) <= MAX_CONCURRENT_TIMERS)
    /\ [][ (k_reply' = 409 /\ k_reply # 409)
           => /\ k_timers' = k_timers
              /\ ActiveTimers(k_timers) = MAX_CONCURRENT_TIMERS ]_vars
    /\ [][ \A i \in 1..Len(k_timers) :
              (k_timers[i] # "gone" /\ k_timers'[i] = "gone")
              => ActiveTimers(k_timers') = ActiveTimers(k_timers) - 1 ]_vars

\* C39, witness: a create was refused at capacity, then a timer was
\* cancelled and another fired, and the sixth timer took a free slot
C39_Witness ==
    /\ Len(k_timers) = 6
    /\ k_timers[6] = "running"
    /\ k_info = "running"
    /\ ActiveTimers(k_timers) = MAX_CONCURRENT_TIMERS
    /\ k_timers[1] = "gone"

\* C40 (as claimed): a one-time alarm whose target was not after the clock
\* when it was requested got the error 400 as its reply and is never in the
\* registry with status active.
C40_PastAlarmRejected ==
    \A i \in 1..Len(k_alarms) :
       k_alarms[i].target <= k_alarms[i].created_at
       => /\ k_alarms[i].reply = 400
          /\ ~(k_alarms[i].registered /\ k_alarms[i].status = "active")

====
